---- MODULE Spec2Model ----
\* Model of src/src/solutions/euler_black_scholes.py: class EulerBlackScholes
\* (pricer call_price / call_delta, path simulator simulate, hedge accountant
\* delta_hedge_short_call) together with numpy's process-wide random generator.
\*
\* Arithmetic.  The code works in floating point with np.exp / np.log / norm.cdf.
\* The model computes the same formulas exactly on inputs for which they are
\* exact: exponents are counted in units of ln 2 (np.exp(x) is 2^x, np.log is
\* log2), prices are integers ("ticks") that are powers of two, volatilities are
\* even so that 0.5*sigma^2 is an integer, and norm.cdf is rounded to the
\* nearest multiple of 1/CdfScale.  Share counts are held in units of
\* 1/CdfScale shares and money in units of 1/CdfScale tick ("Q").
EXTENDS Integers, Sequences, FiniteSets, TLC

\* ---------------------------------------------------------------- bounds
MaxN == 3                      \* largest step count N tried
ParMaxN == 1                   \* largest step count of two interleaved runs

\* fixed-point scale of norm.cdf's range [0, 1]
CdfScale == 2

Runs == {1, 2}                 \* hedge runs (callers of delta_hedge_short_call)
Draws == {-1, 0, 1}            \* standard-normal values the generator yields
UnitPrice == 2 ^ (4 * MaxN)        \* a valid S0, in ticks
Strike == UnitPrice \div 4          \* a valid K, in ticks

\* nan, as a value outside norm.cdf's scaled range and outside any price in Q
CdfNaN == CdfScale + 1
PriceNaN == 0 - 2 ^ 30

\* ---------------------------------------------------------------- state
VARIABLES
    obj,               \* obj[p]: the EulerBlackScholes instance of run p
    pc,                \* pc[p]: position of run p
    err,               \* err[p]: the exception that ended run p, or "none"
    arg,               \* arg[p]: [K, hedge_interval] of the call
    time,              \* time[p]: local `time` (grid, 0-based index i at i+1)
    S,                 \* S[p]: local `S` (price path, 0-based index i at i+1)
    t,                 \* t[p]: simulate's loop variable
    i,                 \* i[p]: delta_hedge_short_call's loop variable
    cash_account,      \* cash_account[p], in Q
    stock_position,    \* stock_position[p], in 1/CdfScale shares
    portfolio_values,  \* recorded series of run p
    option_values,
    delta_values,
    hedge_times,
    final_pnl,         \* final_pnl[p], "unset" until the result is built
    rng,               \* numpy's global generator: outputs so far
    draws,             \* draws[p]: the generator outputs run p consumed
    start,             \* start[p]: generator position when run p's call began
    events,            \* events[p]: checkpoints and settlements executed
    accrued,           \* accrued[p]: grid steps of interest applied to cash
    liquidated,        \* liquidated[p]: stock position closed out at settlement
    quote              \* result of the last direct pricer call

vars == <<obj, pc, err, arg, time, S, t, i, cash_account, stock_position,
          portfolio_values, option_values, delta_values, hedge_times,
          final_pnl, rng, draws, start, events, accrued, liquidated, quote>>

hedgeVars == <<cash_account, stock_position, portfolio_values, option_values,
               delta_values, hedge_times, final_pnl, events, accrued,
               liquidated>>

\* ---------------------------------------------------------------- arithmetic
Max(a, b) == IF a >= b THEN a ELSE b

\* v * np.exp(x), x in units of ln 2
MulExp(v, x) == IF x >= 0 THEN v * (2 ^ x) ELSE v \div (2 ^ (0 - x))

\* np.sqrt(x) for a perfect square x
Sqrt(x) == CHOOSE s \in 0..x : s * s = x

\* np.log(a / b) in units of ln 2, for a, b > 0 whose ratio is a power of two
RECURSIVE LogRatio(_, _)
LogRatio(a, b) ==
    IF a = b THEN 0
    ELSE IF a > b THEN 1 + LogRatio(a, 2 * b)
    ELSE LogRatio(2 * a, b) - 1

\* ---------------------------------------------------------------- pricer
\* norm.cdf(num / sqrt(var)), rounded to the nearest half and scaled by
\* CdfScale.  num is in units of ln 2 and var = sigma^2 * tau, so the argument is
\* d = sqrt(ln 2) * num / sqrt(var); cdf(d) >= 3/4 iff d >= 0.6745 iff
\* num^2 / var >= 0.656, taken as 2/3.  A zero var is the division by zero of
\* the closed form: numpy yields +-inf (cdf 1 or 0) or, for 0/0, nan.
NormCdf(num, var) ==
    IF var = 0 /\ num = 0 THEN CdfNaN
    ELSE IF 3 * num * num >= 2 * var
         THEN (IF num > 0 THEN CdfScale ELSE 0)
         ELSE CdfScale \div 2

\* numerator of d1: np.log(S / K) + (r + 0.5 * sigma_model**2) * tau, for S > 0
D1Num(o, s, K, tau) ==
    LogRatio(s, K) + (o.r + (o.sigma_model * o.sigma_model) \div 2) * tau

\* (sigma_model * np.sqrt(tau))^2
D1Var(o, tau) == o.sigma_model * o.sigma_model * tau

\* norm.cdf(d1); np.log(0 / K) is -inf, and norm.cdf(-inf) is 0
CdfD1(o, s, K, tau) ==
    IF s = 0 THEN 0 ELSE NormCdf(D1Num(o, s, K, tau), D1Var(o, tau))

\* norm.cdf(d2), d2 = d1 - sigma_model * np.sqrt(tau)
CdfD2(o, s, K, tau) ==
    IF s = 0 THEN 0
    ELSE NormCdf(D1Num(o, s, K, tau) - D1Var(o, tau), D1Var(o, tau))

\* variant of the guard below that lets tau = 0 through to the closed form
ExpiredStrict(tau) == tau < 0

\* the guard `if tau <= 0` of both pricer functions
Expired(tau) == tau <= 0

\* max(0, S - K), in Q
Intrinsic(s, K) == CdfScale * Max(0, s - K)

\* S * norm.cdf(d1) - K * np.exp(-r * tau) * norm.cdf(d2), in Q
ClosedFormPrice(o, s, K, tau) ==
    LET c1 == CdfD1(o, s, K, tau)
        c2 == CdfD2(o, s, K, tau)
    IN  IF c1 = CdfNaN \/ c2 = CdfNaN THEN PriceNaN
        ELSE s * c1 - MulExp(K, 0 - o.r * tau) * c2

call_price(o, s, K, tau) ==
    IF Expired(tau) THEN Intrinsic(s, K) ELSE ClosedFormPrice(o, s, K, tau)

\* 1.0 if S > K else 0.0, in 1/CdfScale
ExpiryDelta(s, K) == IF s > K THEN CdfScale ELSE 0

call_delta(o, s, K, tau) ==
    IF Expired(tau) THEN ExpiryDelta(s, K)
    ELSE CdfD1(o, s, K, tau)

\* which branch a pricer call with this tau runs
PricerBranch(tau) == IF Expired(tau) THEN "boundary" ELSE "closed_form"

\* ---------------------------------------------------------------- simulator
\* np.random.normal(0, np.sqrt(dt)) for the generator's standard-normal output z
Normal(o, z) == Sqrt(o.dt) * z

\* variant of the step below: the additive Euler increment
\* S[t-1] + S[t-1] * (r * dt + sigma_true * dw)
EulerStepAdditive(o, prev, z) ==
    prev + prev * (o.r * o.dt + o.sigma_true * Normal(o, z))

\* S[t-1] * np.exp((r - 0.5 * sigma_true**2) * dt + sigma_true * dw)
EulerStep(o, prev, z) ==
    MulExp(prev, (o.r - (o.sigma_true * o.sigma_true) \div 2) * o.dt
                 + o.sigma_true * Normal(o, z))

\* np.linspace(0, T, N + 1): entry i is i * T / N = i * dt
Linspace(o) == [k \in 1..(o.N + 1) |-> (k - 1) * o.dt]

\* variant of the start below: the path resumes from the last price of a
\* path simulated earlier, state kept from one call to the next
PathStartResumed(o) ==
    LET ended == {q \in Runs : pc[q] \in {"loop", "done"}}
        last == IF ended = {} THEN o.S0
                ELSE LET q == CHOOSE q \in ended : TRUE IN S[q][Len(S[q])]
    IN  [k \in 1..(o.N + 1) |-> IF k = 1 THEN last ELSE 0]

\* np.zeros(N + 1) with S[0] = S0
PathStart(o) == [k \in 1..(o.N + 1) |-> IF k = 1 THEN o.S0 ELSE 0]

\* ---------------------------------------------------------------- hedge
\* variant of the stop below that leaves grid index N out
RangeStopShort(o) == o.N

\* stop of range(hedge_interval, self.N+1, hedge_interval)
RangeStop(o) == o.N + 1

\* variant of the step below: every grid index after the first checkpoint
NextIndexUnit(k, h) == k + 1

\* the index after k in range(h, stop, h)
NextIndex(k, h) == k + h

\* whether index k is still inside range(h, stop, h)
InRange(k, h, stop) == IF h > 0 THEN k < stop ELSE k > stop

\* variant of the accrual below: interest for one grid step per checkpoint
AccrueOneStep(o, cash, h) == MulExp(cash, o.r * o.dt)

\* cash_account * np.exp(self.r * hedge_interval * self.dt)
Accrue(o, cash, h) == MulExp(cash, o.r * h * o.dt)

\* entry i (0-based) of a numpy array held as a 1-based sequence
At(a, k) == a[k + 1]

\* ---------------------------------------------------------------- inputs
NSet == (0 - 1)..MaxN                   \* N, valid and invalid
HSet == 0..(MaxN + 1)                   \* hedge_interval, valid and invalid
RSet == {0, 1}                          \* r, in units of ln 2 per unit time
S0Set == {0, UnitPrice}
SigmaTrueSet == {0, 2}                  \* sigma_true, in units of sqrt(ln 2)
SigmaModelSet == {2, 4}                 \* sigma_model, in units of sqrt(ln 2)
TSet(N) == IF N >= 1 THEN {0, N} ELSE {1}    \* T, a multiple of N: T / N is exact

\* inputs of direct pricer calls: powers of two, and tau on both sides of 0
QuoteSpots == {0, 1, 2, 4, 8, 16}
QuoteStrikes == {2, 4, 8}
QuoteTaus == (0 - 2)..1

NoObj == [S0 |-> 0, r |-> 0, sigma_true |-> 0, sigma_model |-> 0,
          T |-> 0, N |-> 0, dt |-> 0]
NoArg == [K |-> 0, hedge_interval |-> 0]
NoQuote == [S |-> 0, K |-> 0, tau |-> 0, price |-> 0, delta |-> 0,
            branch |-> "none"]

\* ---------------------------------------------------------------- initial state
Init ==
    /\ obj = [p \in Runs |-> NoObj]
    /\ pc = [p \in Runs |-> "none"]
    /\ err = [p \in Runs |-> "none"]
    /\ arg = [p \in Runs |-> NoArg]
    /\ time = [p \in Runs |-> <<>>]
    /\ S = [p \in Runs |-> <<>>]
    /\ t = [p \in Runs |-> 0]
    /\ i = [p \in Runs |-> 0]
    /\ cash_account = [p \in Runs |-> 0]
    /\ stock_position = [p \in Runs |-> 0]
    /\ portfolio_values = [p \in Runs |-> <<>>]
    /\ option_values = [p \in Runs |-> <<>>]
    /\ delta_values = [p \in Runs |-> <<>>]
    /\ hedge_times = [p \in Runs |-> <<>>]
    /\ final_pnl = [p \in Runs |-> 0]
    /\ rng = <<>>
    /\ draws = [p \in Runs |-> <<>>]
    /\ start = [p \in Runs |-> 0]
    /\ events = [p \in Runs |-> <<>>]
    /\ accrued = [p \in Runs |-> 0]
    /\ liquidated = [p \in Runs |-> 0]
    /\ quote = NoQuote

\* ---------------------------------------------------------------- operations
\* EulerBlackScholes.__init__: T / N raises ZeroDivisionError for N = 0
Construct(p, S0, r, sigma_true, sigma_model, T, N) ==
    /\ pc[p] = "none"
    /\ IF N = 0
       THEN /\ pc' = [pc EXCEPT ![p] = "raised"]
            /\ err' = [err EXCEPT ![p] = "ZeroDivisionError"]
            /\ obj' = obj
       ELSE /\ obj' = [obj EXCEPT ![p] =
                         [S0 |-> S0, r |-> r, sigma_true |-> sigma_true,
                          sigma_model |-> sigma_model, T |-> T, N |-> N,
                          dt |-> T \div N]]
            /\ pc' = [pc EXCEPT ![p] = "ready"]
            /\ err' = err
    /\ UNCHANGED <<arg, time, S, t, i, hedgeVars, rng, draws, start, quote>>

\* delta_hedge_short_call is entered and calls simulate, which builds the grid
\* and the zeroed path: np.linspace raises ValueError for N + 1 < 0, and
\* S[0] = S0 raises IndexError on the empty array for N + 1 = 0
Call(p, K, hedge_interval) ==
    /\ pc[p] = "ready"
    /\ arg' = [arg EXCEPT ![p] = [K |-> K, hedge_interval |-> hedge_interval]]
    /\ start' = [start EXCEPT ![p] = Len(rng)]
    /\ IF obj[p].N + 1 <= 0
       THEN /\ pc' = [pc EXCEPT ![p] = "raised"]
            /\ err' = [err EXCEPT ![p] =
                         IF obj[p].N + 1 < 0 THEN "ValueError" ELSE "IndexError"]
            /\ UNCHANGED <<time, S, t>>
       ELSE /\ time' = [time EXCEPT ![p] = Linspace(obj[p])]
            /\ S' = [S EXCEPT ![p] = PathStart(obj[p])]
            /\ t' = [t EXCEPT ![p] = 1]
            /\ pc' = [pc EXCEPT ![p] = "simulate"]
            /\ err' = err
    /\ UNCHANGED <<obj, i, hedgeVars, rng, draws, quote>>

\* one iteration of simulate's loop: the next output of the global generator
\* is consumed and S[t] is set
SimStep(p) ==
    /\ pc[p] = "simulate"
    /\ t[p] < Len(S[p])
    /\ \E z \in Draws :
         /\ rng' = Append(rng, z)
         /\ draws' = [draws EXCEPT ![p] = Append(@, z)]
         /\ S' = [S EXCEPT ![p][t[p] + 1] = EulerStep(obj[p], At(S[p], t[p] - 1), z)]
    /\ t' = [t EXCEPT ![p] = @ + 1]
    /\ UNCHANGED <<obj, pc, err, arg, time, i, hedgeVars, start, quote>>

\* simulate returns; the initial premium and hedge are booked and the first
\* point is recorded; range(hedge_interval, N+1, hedge_interval) raises
\* ValueError for a zero step
HedgeInit(p) ==
    LET o == obj[p]
        K == arg[p].K
        h == arg[p].hedge_interval
        option_price == call_price(o, o.S0, K, o.T)
        initial_delta == call_delta(o, o.S0, K, o.T)
        cash == option_price - initial_delta * o.S0
    IN  /\ pc[p] = "simulate"
        /\ ~(t[p] < Len(S[p]))
        /\ cash_account' = [cash_account EXCEPT ![p] = cash]
        /\ stock_position' = [stock_position EXCEPT ![p] = initial_delta]
        /\ portfolio_values' = [portfolio_values EXCEPT ![p] =
                                  <<cash + initial_delta * o.S0>>]
        /\ option_values' = [option_values EXCEPT ![p] = <<option_price>>]
        /\ delta_values' = [delta_values EXCEPT ![p] = <<initial_delta>>]
        /\ hedge_times' = [hedge_times EXCEPT ![p] = <<0>>]
        /\ IF h = 0
           THEN /\ pc' = [pc EXCEPT ![p] = "raised"]
                /\ err' = [err EXCEPT ![p] = "ValueError"]
                /\ i' = i
           ELSE /\ pc' = [pc EXCEPT ![p] = "loop"]
                /\ i' = [i EXCEPT ![p] = h]
                /\ err' = err
        /\ UNCHANGED <<obj, arg, time, S, t, final_pnl, rng, draws, start,
                       events, accrued, liquidated, quote>>

\* one iteration of the rebalancing loop, at grid index i
Rebalance(p) ==
    LET o == obj[p]
        K == arg[p].K
        h == arg[p].hedge_interval
        current_time == At(time[p], i[p])
        time_to_maturity == o.T - current_time
        cash1 == Accrue(o, cash_account[p], h)
        current_option == call_price(o, At(S[p], i[p]), K, time_to_maturity)
        current_delta == call_delta(o, At(S[p], i[p]), K, time_to_maturity)
        shares_to_trade == current_delta - stock_position[p]
        cash2 == cash1 - shares_to_trade * At(S[p], i[p])
    IN  /\ pc[p] = "loop"
        /\ InRange(i[p], h, RangeStop(o))
        /\ cash_account' = [cash_account EXCEPT ![p] = cash2]
        /\ stock_position' = [stock_position EXCEPT ![p] = current_delta]
        /\ portfolio_values' = [portfolio_values EXCEPT ![p] =
                                  Append(@, cash2 + current_delta * At(S[p], i[p]))]
        /\ option_values' = [option_values EXCEPT ![p] = Append(@, current_option)]
        /\ delta_values' = [delta_values EXCEPT ![p] = Append(@, current_delta)]
        /\ hedge_times' = [hedge_times EXCEPT ![p] = Append(@, current_time)]
        /\ events' = [events EXCEPT ![p] = Append(@, <<"rebalance", i[p]>>)]
        /\ accrued' = [accrued EXCEPT ![p] = @ + h]
        /\ i' = [i EXCEPT ![p] = NextIndex(@, h)]
        /\ UNCHANGED <<obj, pc, err, arg, time, S, t, final_pnl, rng, draws,
                       start, liquidated, quote>>

\* variant of the settlement below that books the payoff as received
SettleCashLong(cash, stock, price, payoff) == cash + stock * price + payoff

\* cash_account += stock_position * S[self.N]; cash_account -= option_payoff
SettleCash(cash, stock, price, payoff) == cash + stock * price - payoff

\* variant of the result entry below: the path without its initial price, S[1:]
stock_path_tail(s) == Tail(s)

\* 'stock_path': S of the result: the simulated array itself
stock_path(s) == s

\* the loop is exhausted: terminal settlement, and the result is returned with
\* the path (S[p] from here on is the result's 'stock_path') and the time grid
Settle(p) ==
    LET o == obj[p]
        K == arg[p].K
        h == arg[p].hedge_interval
        option_payoff == Intrinsic(At(S[p], o.N), K)
        cash == SettleCash(cash_account[p], stock_position[p], At(S[p], o.N),
                           option_payoff)
    IN  /\ pc[p] = "loop"
        /\ ~InRange(i[p], h, RangeStop(o))
        /\ liquidated' = [liquidated EXCEPT ![p] = stock_position[p]]
        /\ cash_account' = [cash_account EXCEPT ![p] = cash]
        /\ stock_position' = [stock_position EXCEPT ![p] = 0]
        /\ final_pnl' = [final_pnl EXCEPT ![p] = cash]
        /\ portfolio_values' = [portfolio_values EXCEPT ![p] = Append(@, cash)]
        /\ option_values' = [option_values EXCEPT ![p] = Append(@, option_payoff)]
        /\ hedge_times' = [hedge_times EXCEPT ![p] = Append(@, o.T)]
        /\ events' = [events EXCEPT ![p] = Append(@, <<"settle", o.N>>)]
        /\ S' = [S EXCEPT ![p] = stock_path(S[p])]
        /\ pc' = [pc EXCEPT ![p] = "done"]
        /\ UNCHANGED <<obj, err, arg, time, t, i, delta_values, rng, draws,
                       start, accrued, quote>>

\* a direct call of call_price and call_delta on a constructed instance
Quote(p, s, K, tau) ==
    /\ pc[p] = "ready"
    /\ quote' = [S |-> s, K |-> K, tau |-> tau,
                 price |-> call_price(obj[p], s, K, tau),
                 delta |-> call_delta(obj[p], s, K, tau),
                 branch |-> PricerBranch(tau)]
    /\ UNCHANGED <<obj, pc, err, arg, time, S, t, i, hedgeVars, rng, draws,
                   start>>

\* ---------------------------------------------------------------- specifications
\* one hedge run, over valid and invalid parameters
New ==
    \E N \in NSet, S0 \in S0Set, r \in RSet, st \in SigmaTrueSet,
       sm \in SigmaModelSet :
      \E T \in TSet(N) : Construct(1, S0, r, st, sm, T, N)

Hedge == \E h \in HSet : Call(1, Strike, h)

Next ==
    \/ New
    \/ Hedge
    \/ SimStep(1)
    \/ HedgeInit(1)
    \/ Rebalance(1)
    \/ Settle(1)

Spec == Init /\ [][Next]_vars

\* two hedge runs with valid parameters, interleaved at every step
NewPar(p) == \E N \in 1..ParMaxN : Construct(p, UnitPrice, 1, 2, 2, N, N)

HedgePar(p) == \E h \in 1..ParMaxN : Call(p, Strike, h)

NextPar ==
    \E p \in Runs :
        \/ NewPar(p)
        \/ HedgePar(p)
        \/ SimStep(p)
        \/ HedgeInit(p)
        \/ Rebalance(p)
        \/ Settle(p)

SpecPar == Init /\ [][NextPar]_vars

\* direct pricer calls on valid instances
NewPricer ==
    \E r \in RSet, sm \in SigmaModelSet : Construct(1, UnitPrice, r, 2, sm, 1, 1)

DirectCall ==
    \E s \in QuoteSpots, K \in QuoteStrikes, tau \in QuoteTaus : Quote(1, s, K, tau)

NextPricer == NewPricer \/ DirectCall

SpecPricer == Init /\ [][NextPricer]_vars

\* ---------------------------------------------------------------- vocabulary
\* run p has entered delta_hedge_short_call
Called(p) == arg[p] # NoArg

\* the hedge call of run p satisfies 1 <= hedge_interval <= N
ValidInterval(p) ==
    /\ Called(p)
    /\ obj[p].N >= 1
    /\ 1 <= arg[p].hedge_interval
    /\ arg[p].hedge_interval <= obj[p].N

\* a parameter of run p's call is invalid
InvalidParameter(p) ==
    /\ Called(p)
    /\ \/ obj[p].S0 <= 0
       \/ obj[p].sigma_true <= 0
       \/ obj[p].sigma_model <= 0
       \/ obj[p].T <= 0
       \/ obj[p].N <= 0
       \/ arg[p].hedge_interval < 1
       \/ arg[p].hedge_interval > obj[p].N

\* every parameter of run p's call is valid
ValidCall(p) == Called(p) /\ ~InvalidParameter(p)

\* simulate has returned its path to run p
PathReturned(p) ==
    \/ pc[p] \in {"loop", "done"}
    \/ pc[p] = "simulate" /\ ~(t[p] < Len(S[p]))

\* number of regular checkpoints run p has executed
Checkpoints(p) == Cardinality({k \in 1..Len(events[p]) : events[p][k][1] = "rebalance"})

\* grid index of the last checkpoint of run p, 0 before the first
LastCheckpoint(p) ==
    IF events[p] = <<>> THEN 0 ELSE events[p][Len(events[p])][2]

NoDuplicates(q) == \A a, b \in 1..Len(q) : a # b => q[a] # q[b]

IsPrefix(a, b) == Len(a) <= Len(b) /\ a = SubSeq(b, 1, Len(a))

\* rebalances at h, 2h, ... <= N, then one settlement at N
ExpectedEvents(N, h) ==
    [j \in 1..((N \div h) + 1) |->
        IF j <= N \div h THEN <<"rebalance", j * h>> ELSE <<"settle", N>>]

\* ---------------------------------------------------------------- properties
\* C1: in every finished hedge run with 1 <= hedge_interval <= N the four
\* recorded series portfolio_values, option_values, delta_values and hedge_times
\* have the same length, the number of regular checkpoints plus 2.
C1_EqualLengths ==
    \A p \in Runs :
        (pc[p] = "done" /\ ValidCall(p)) =>
            /\ Len(portfolio_values[p]) = Checkpoints(p) + 2
            /\ Len(option_values[p]) = Checkpoints(p) + 2
            /\ Len(delta_values[p]) = Checkpoints(p) + 2
            /\ Len(hedge_times[p]) = Checkpoints(p) + 2

\* C2: for 1 <= hedge_interval <= N the run rebalances exactly at the grid
\* indices h, 2h, ... that are <= N, once each and in increasing order, and then
\* settles exactly once, at grid index N; at any moment what has been executed
\* is an initial part of that schedule.
C2_Schedule ==
    \A p \in Runs :
        ValidInterval(p) =>
            /\ IsPrefix(events[p], ExpectedEvents(obj[p].N, arg[p].hedge_interval))
            /\ pc[p] = "done" =>
                 events[p] = ExpectedEvents(obj[p].N, arg[p].hedge_interval)

C2_Witness ==
    /\ pc[1] = "done"
    /\ ValidCall(1)
    /\ obj[1].N = 3
    /\ arg[1].hedge_interval = 2
    /\ events[1] = << <<"rebalance", 2>>, <<"settle", 3>> >>

\* C3 as stated: with hedge_interval = N the run records exactly 3 checkpoint
\* times and no time is recorded twice.
C3_NoDuplicateTimes ==
    \A p \in Runs :
        (pc[p] = "done" /\ ValidCall(p) /\ arg[p].hedge_interval = obj[p].N) =>
            /\ Len(hedge_times[p]) = 3
            /\ NoDuplicates(hedge_times[p])

\* C3 amended: with hedge_interval = N the run records exactly 3 checkpoint
\* times, 0, T and T: maturity is recorded twice, once by the regular checkpoint
\* at grid index N and once by the terminal settlement; portfolio_values and
\* option_values have 3 entries as well.
C3_ThreeTimes ==
    \A p \in Runs :
        (pc[p] = "done" /\ ValidInterval(p) /\ arg[p].hedge_interval = obj[p].N) =>
            /\ hedge_times[p] = <<0, obj[p].T, obj[p].T>>
            /\ Len(portfolio_values[p]) = 3
            /\ Len(option_values[p]) = 3

C3_Witness ==
    /\ pc[1] = "done"
    /\ ValidCall(1)
    /\ obj[1].N = 2
    /\ arg[1].hedge_interval = 2
    /\ obj[1].T = 2
    /\ hedge_times[1] = <<0, 2, 2>>

\* C4: a call with an invalid parameter is rejected before any computation:
\* it ends in an error, and no generator output has been consumed.
C4_RejectedAtBoundary ==
    \A p \in Runs :
        InvalidParameter(p) => (pc[p] = "raised" /\ draws[p] = <<>>)

\* C5: at every regular checkpoint the cash after it is the cash before it
\* times exp(r * dt * steps), steps being the grid steps since the previous
\* checkpoint (or since 0), minus (new delta - previous stock position) times the
\* checkpoint price; between the initial booking and the settlement no other
\* step changes the cash.
C5_SelfFinancing ==
    [][\A p \in Runs :
         (pc[p] = "loop" /\ pc'[p] = "loop") =>
            IF events'[p] # events[p]
            THEN LET k == events'[p][Len(events'[p])][2]
                     steps == k - LastCheckpoint(p)
                 IN  cash_account'[p] =
                        MulExp(cash_account[p], obj[p].r * obj[p].dt * steps)
                        - (stock_position'[p] - stock_position[p]) * At(S[p], k)
            ELSE cash_account'[p] = cash_account[p]]_vars

C5_Witness ==
    /\ pc[1] = "loop"
    /\ ValidCall(1)
    /\ obj[1].r = 1
    /\ obj[1].dt = 1
    /\ arg[1].hedge_interval = 2
    /\ Checkpoints(1) = 1
    /\ Len(delta_values[1]) = 2
    /\ delta_values[1][1] # delta_values[1][2]
    /\ cash_account[1] # 0

\* C6: for every spot, strike and tau <= 0 a pricer call returns
\* max(0, S - K) and the delta 1 if S > K else 0 (0 at S = K), through the
\* boundary branch, the closed form not being evaluated.
C6_BoundaryLaw ==
    (quote.branch # "none" /\ quote.tau <= 0) =>
        /\ quote.price = CdfScale * Max(0, quote.S - quote.K)
        /\ quote.delta = (IF quote.S > quote.K THEN CdfScale ELSE 0)
        /\ quote.branch = "boundary"

C6_Witness ==
    /\ quote.branch = "boundary"
    /\ quote.tau = 0
    /\ quote.S = quote.K
    /\ quote.delta = 0
    /\ quote.price = 0

\* C7: two finished hedge runs with the same parameters that consumed the same
\* generator outputs have the same path, the same recorded series and the same
\* final P&L.
C7_Deterministic ==
    (/\ pc[1] = "done"
     /\ pc[2] = "done"
     /\ obj[1] = obj[2]
     /\ arg[1] = arg[2]
     /\ draws[1] = draws[2]) =>
        /\ S[1] = S[2]
        /\ time[1] = time[2]
        /\ portfolio_values[1] = portfolio_values[2]
        /\ option_values[1] = option_values[2]
        /\ delta_values[1] = delta_values[2]
        /\ hedge_times[1] = hedge_times[2]
        /\ final_pnl[1] = final_pnl[2]

C7_Witness ==
    /\ pc[1] = "done"
    /\ pc[2] = "done"
    /\ obj[1] = obj[2]
    /\ arg[1] = arg[2]
    /\ start[1] = 0
    /\ start[2] = 0
    /\ rng = <<1, 1>>
    /\ draws[1] = <<1>>
    /\ draws[2] = <<1>>
    /\ final_pnl[1] = final_pnl[2]
    /\ final_pnl[1] # 0

\* C8: the generator outputs a run consumes do not depend on the other run:
\* they are the outputs that follow the generator state the run found when its
\* call began, as if the generator were the run's own.
C8_Independent ==
    \A p \in Runs :
        PathReturned(p) =>
            draws[p] = SubSeq(rng, start[p] + 1, start[p] + Len(draws[p]))

C10_TerminalCheckpoint ==
    \A p \in Runs :
        (pc[p] = "done" /\ ValidCall(p)) =>
            /\ accrued[p] = obj[p].N
            /\ liquidated[p] = ExpiryDelta(At(S[p], obj[p].N), arg[p].K)

\* C11: the settlement step sets final_pnl to the cash after the last rebalance
\* plus the stock position after the last rebalance times S[N] minus
\* max(0, S[N] - K), leaves the stock position at 0, and appends as last
\* entries the portfolio value final_pnl, the option value max(0, S[N] - K) and
\* the checkpoint time T.
C11_Settlement ==
    [][\A p \in Runs :
         (pc[p] = "loop" /\ pc'[p] = "done") =>
            LET sN == At(S[p], obj[p].N)
                payoff == CdfScale * Max(0, sN - arg[p].K)
            IN  /\ final_pnl'[p] =
                     cash_account[p] + stock_position[p] * sN - payoff
                /\ stock_position'[p] = 0
                /\ portfolio_values'[p] = Append(portfolio_values[p], final_pnl'[p])
                /\ option_values'[p] = Append(option_values[p], payoff)
                /\ hedge_times'[p] = Append(hedge_times[p], obj[p].T)]_vars

C11_Witness ==
    /\ pc[1] = "done"
    /\ ValidCall(1)
    /\ obj[1].N = 3
    /\ arg[1].hedge_interval = 2
    /\ liquidated[1] = CdfScale
    /\ stock_position[1] = 0
    /\ At(S[1], 3) > arg[1].K
    /\ final_pnl[1] # 0
    /\ portfolio_values[1][Len(portfolio_values[1])] = final_pnl[1]
    /\ option_values[1][Len(option_values[1])] = CdfScale * (At(S[1], 3) - arg[1].K)
    /\ hedge_times[1][Len(hedge_times[1])] = obj[1].T

\* C12: once simulate has returned, no step of the run writes the price path
\* or the time grid, so the result's stock_path and time are the simulated path
\* (N + 1 entries, first price S0); no step of a call changes the market
\* parameters S0, r, sigma_true, sigma_model, T, N, dt; and a step of the
\* rebalancing loop changes nothing of the run but the cash balance, the stock
\* position, the recorded series and the loop's own index.
C12_Frame ==
    [][\A p \in Runs :
         /\ PathReturned(p) =>
              /\ S'[p] = S[p]
              /\ time'[p] = time[p]
              /\ Len(S[p]) = obj[p].N + 1
              /\ Len(time[p]) = obj[p].N + 1
              /\ At(S[p], 0) = obj[p].S0
         /\ Called(p) => obj'[p] = obj[p]
         /\ (pc[p] = "loop" /\ pc'[p] = "loop") =>
              /\ arg'[p] = arg[p]
              /\ t'[p] = t[p]
              /\ draws'[p] = draws[p]
              /\ start'[p] = start[p]
              /\ final_pnl'[p] = final_pnl[p]
              /\ err'[p] = err[p]]_vars

C12_Witness ==
    /\ pc[1] = "done"
    /\ ValidCall(1)
    /\ obj[1].N = MaxN
    /\ arg[1].hedge_interval = 1
    /\ Checkpoints(1) = MaxN
    /\ Len(S[1]) = MaxN + 1
    /\ Len(time[1]) = MaxN + 1
    /\ At(S[1], 0) = obj[1].S0
    /\ At(S[1], MaxN) # obj[1].S0
    /\ portfolio_values[1][1] # portfolio_values[1][2]
    /\ delta_values[1][1] # delta_values[1][2]

====
